---- MODULE Spec2Model ----
(***************************************************************************)
(* Model of the lang-cli driver (src/main.rs): the command line is         *)
(* classified by main, the execution arguments are scanned, the source is  *)
(* acquired and handed to the lexer, the parser or the interpreter.        *)
(* Indices are the 0-based indices of the Rust source; At and SliceFrom    *)
(* translate them to TLA+ sequences.                                       *)
(***************************************************************************)
EXTENDS Integers, Sequences, FiniteSets, TLC

VARIABLES
    binary_name,            \* env::args().next()
    args,                   \* the remaining arguments, collected
    pc,                     \* position of the single thread
    mode,                   \* which branch of main is being executed
    print_translations,     \* locals of main / parameters of execute_lang_*
    print_returned_value,
    warnings,
    lang_args,
    stdout,                 \* lines written by println!
    stderr,                 \* lines written by eprintln!
    exit_code,              \* the ExitCode returned by main, once returned
    calls,                  \* calls made to the file system and the collaborators
    code,                   \* bytes read by read_to_end
    interpreter,            \* arguments Interpreter::new was given
    interpreter_result      \* what interpret_lines reported on its own channels

vars == <<binary_name, args, pc, mode, print_translations, print_returned_value,
          warnings, lang_args, stdout, stderr, exit_code, calls, code,
          interpreter, interpreter_result>>

----------------------------------------------------------------------------
(* Bounds of the model. *)

MaxArgs == 5

\* First arguments: one representative of every shape main tells apart.
HeadTokens ==
    {"script.lang", "", "-e", "-h", "-help", "--help", "--foo", "--", "-",
     "-printTokens", "-printAST", "-x", "-warnings", "-langArgs"}

\* Later arguments: a word that is no execution argument, and the execution
\* arguments.
TailTokens ==
    {"a", "-printTranslations", "-printReturnedValue", "-warnings",
     "-langArgs", "--"}

BinaryNames == {"lang-cli"}

\* Contents a file can have: valid bytes, and a byte that is no valid UTF-8.
FileContents == {<<97>>, <<97, 255>>}

----------------------------------------------------------------------------
(* Option<T>, ExitCode and 0-based indexing. *)

None == <<>>
Some(v) == <<v>>
IsSome(o) == o # None
Unwrap(o) == o[1]

SUCCESS == 0
FAILURE == 1

At(s, k) == s[k + 1]
SliceFrom(s, from) == SubSeq(s, from + 1, Len(s))

StartsWith(s, p) == Len(s) >= Len(p) /\ SubSeq(s, 1, Len(p)) = p

RECURSIVE Repeat(_, _)
Repeat(s, n) == IF n = 0 THEN "" ELSE s \o Repeat(s, n - 1)

\* String::from_utf8_lossy on the modelled bytes: an ASCII byte is kept, any
\* other byte (none of them starts a valid sequence here) becomes U+FFFD.
FromUtf8Lossy(bytes) ==
    [k \in 1..Len(bytes) |-> IF bytes[k] < 128 THEN bytes[k] ELSE 65533]

----------------------------------------------------------------------------
(* print_help *)

InterpreterVersion == "v1"
CargoPkgVersion == "v0"

HeaderStr == "langRS version " \o InterpreterVersion \o " (lang-cli " \o CargoPkgVersion \o ")"

HelpPage(name) ==
    LET bin == IF IsSome(name) THEN Unwrap(name) ELSE "lang" IN
    << HeaderStr,
       Repeat("=", Len(HeaderStr)),
       "Interprets Lang code & files",
       "",
       "Usage: " \o bin \o " COMMAND [ARGs]... | " \o bin \o " -e CODE [EXECUTION_ARGs]... [LANG_ARGs]... | " \o bin \o " FILE [EXECUTION_ARGs]... [LANG_ARGs]...",
       "",
       "COMMANDs",
       "--------",
       "    -printAST FILE                   Prints the AST of a Lang file to standard output",
       "    -printTokens FILE                Prints the tokens of a Lang file to standard output",
       "",
       "    -h, --help                        Prints this help page",
       "",
       "IN-LINE CODE",
       "------------",
       "    -e CODE                           Executes CODE in the OS shell",
       "",
       "EXECUTION_ARGs",
       "--------------",
       "    -printTranslations                Prints all Translations after the execution of the Lang file finished to standard output",
       "    -printReturnedValue               Prints the returned or thrown value of the Lang file if any",
       "    -warnings                         Enables the output of warnings which occur",
       "    -langArgs                         Indicates the start of the Lang args arguments (Everything after this argument will be interpreted as Lang args)",
       "    --                                Alias for \"-langArgs\"" >>

print_help(out, name) == out \o HelpPage(name)

----------------------------------------------------------------------------
(* The conditions of main. *)

\* Mutant: only the exact "-h" asks for help.
IsHelpPrefix_Exact(arg) == arg = "-h"

IsHelpPrefix(arg) == StartsWith(arg, "-h")

IsLongOption(arg) == StartsWith(arg, "--")

\* Mutant: every "--..." argument is taken as "--help".
IsHelpLongOption_AnyLongOption(arg) == StartsWith(arg, "--")

IsHelpLongOption(arg) == arg = "--help"

\* line 25
IsExecutionOrHelp(arg) ==
    \/ ~StartsWith(arg, "-")
    \/ arg = "-e"
    \/ IsLongOption(arg)
    \/ IsHelpPrefix(arg)

\* Mutant: only a missing file argument is an arity error.
WrongArity_OnlyMissing(as) == Len(as) < 2

WrongArity(as) == Len(as) # 2

\* line 55
ExecutionArgsStartIndex(lang_file_execution) == IF lang_file_execution THEN 1 ELSE 2

\* Mutant: an unrecognized argument starts the Lang args.
MatchExecutionArg_UnknownStartsLangArgs(arg) ==
    CASE arg = "-printTranslations" -> "print_translations"
      [] arg = "-printReturnedValue" -> "print_returned_value"
      [] arg = "-warnings" -> "warnings"
      [] OTHER -> "lang_args"

\* The arm of the match at line 64 an argument takes.
MatchExecutionArg(arg) ==
    CASE arg = "-printTranslations" -> "print_translations"
      [] arg = "-printReturnedValue" -> "print_returned_value"
      [] arg = "-warnings" -> "warnings"
      [] arg = "-langArgs" \/ arg = "--" -> "lang_args"
      [] OTHER -> "unknown"

\* Mutant: the slice starts at the delimiter itself.
LangArgsAfter_KeepsDelimiter(as, start, i) == SliceFrom(as, start + i)

\* Mutant: the slice ignores the loop index.
LangArgsAfter_IgnoresIndex(as, start, i) == SliceFrom(as, start + 1)

\* line 69: the arguments after the delimiter found at iteration i
LangArgsAfter(as, start, i) == SliceFrom(as, start + i + 1)

ExecutionArgsInit ==
    [print_translations |-> FALSE, print_returned_value |-> FALSE,
     warnings |-> FALSE, lang_args |-> None, unknown |-> None]

\* The for loop of lines 61-80, from iteration i with the locals st.
RECURSIVE ExecutionArgsLoop(_, _, _, _)
ExecutionArgsLoop(as, start, i, st) ==
    IF start + i >= Len(as) THEN st
    ELSE LET arg == At(as, start + i)
             arm == MatchExecutionArg(arg) IN
         CASE arm = "print_translations" ->
                  ExecutionArgsLoop(as, start, i + 1, [st EXCEPT !.print_translations = TRUE])
           [] arm = "print_returned_value" ->
                  ExecutionArgsLoop(as, start, i + 1, [st EXCEPT !.print_returned_value = TRUE])
           [] arm = "warnings" ->
                  ExecutionArgsLoop(as, start, i + 1, [st EXCEPT !.warnings = TRUE])
           [] arm = "lang_args" ->
                  [st EXCEPT !.lang_args = Some(LangArgsAfter(as, start, i))]
           [] OTHER ->
                  [st EXCEPT !.unknown = Some(arg)]

ParseExecutionArgs(as) ==
    ExecutionArgsLoop(as, ExecutionArgsStartIndex(At(as, 0) # "-e"), 0, ExecutionArgsInit)

\* Lines 25-53 passed: main reaches the execution-argument loop.
ReachesExecutionArgs(as) ==
    /\ as # <<>>
    /\ IsExecutionOrHelp(At(as, 0))
    /\ ~IsHelpPrefix(At(as, 0))
    /\ ~IsLongOption(At(as, 0))
    /\ ~(At(as, 0) = "-e" /\ Len(as) < 2)

----------------------------------------------------------------------------
(* Initial states: the process has started, nothing has run. *)

IsArgVector(as) ==
    \/ as = <<>>
    \/ \E n \in 0..(MaxArgs - 1), h \in HeadTokens :
          \E t \in [1..n -> TailTokens] : as = <<h>> \o t

Init ==
    /\ binary_name \in {None} \cup {Some(b) : b \in BinaryNames}
    /\ IsArgVector(args)
    /\ pc = "main"
    /\ mode = "none"
    /\ print_translations = FALSE
    /\ print_returned_value = FALSE
    /\ warnings = FALSE
    /\ lang_args = None
    /\ stdout = <<>>
    /\ stderr = <<>>
    /\ exit_code = None
    /\ calls = <<>>
    /\ code = None
    /\ interpreter = None
    /\ interpreter_result = None

----------------------------------------------------------------------------
(* main *)

Return(status) ==
    /\ pc' = "exit"
    /\ exit_code' = Some(status)

Locals == <<print_translations, print_returned_value, warnings, lang_args>>
Collaborators == <<calls, code, interpreter, interpreter_result>>

\* lines 19-23
MainNoArgs ==
    /\ pc = "main"
    /\ args = <<>>
    /\ stdout' = print_help(stdout, binary_name)
    /\ Return(SUCCESS)
    /\ UNCHANGED <<binary_name, args, mode, Locals, stderr, Collaborators>>

\* lines 26-30
MainHelp ==
    /\ pc = "main"
    /\ args # <<>>
    /\ IsExecutionOrHelp(At(args, 0))
    /\ IsHelpPrefix(At(args, 0))
    /\ stdout' = print_help(stdout, binary_name)
    /\ Return(SUCCESS)
    /\ UNCHANGED <<binary_name, args, mode, Locals, stderr, Collaborators>>

\* lines 32-44
MainLongOption ==
    /\ pc = "main"
    /\ args # <<>>
    /\ IsExecutionOrHelp(At(args, 0))
    /\ ~IsHelpPrefix(At(args, 0))
    /\ IsLongOption(At(args, 0))
    /\ stderr' = IF ~IsHelpLongOption(At(args, 0))
                 THEN Append(stderr, "Unknown COMMAND \"" \o At(args, 0) \o "\"")
                 ELSE stderr
    /\ stdout' = print_help(stdout, binary_name)
    /\ Return(IF ~IsHelpLongOption(At(args, 0)) THEN FAILURE ELSE SUCCESS)
    /\ UNCHANGED <<binary_name, args, mode, Locals, Collaborators>>

\* lines 46-53
MainMissingCode ==
    /\ pc = "main"
    /\ args # <<>>
    /\ IsExecutionOrHelp(At(args, 0))
    /\ ~IsHelpPrefix(At(args, 0))
    /\ ~IsLongOption(At(args, 0))
    /\ At(args, 0) = "-e" /\ Len(args) < 2
    /\ stderr' = Append(stderr, "CODE argument for \"-e\" is missing")
    /\ stdout' = print_help(stdout, binary_name)
    /\ Return(FAILURE)
    /\ UNCHANGED <<binary_name, args, mode, Locals, Collaborators>>

\* lines 55-86: the loop over the execution arguments, then the call of
\* execute_lang_file or execute_lang_code
MainExecutionArgs ==
    /\ pc = "main"
    /\ ReachesExecutionArgs(args)
    /\ LET lang_file_execution == At(args, 0) # "-e"
           st == ParseExecutionArgs(args) IN
       IF IsSome(st.unknown)
       THEN /\ stderr' = Append(stderr, "Unknown EXECUTION_ARG \"" \o Unwrap(st.unknown) \o "\"")
            /\ stdout' = print_help(stdout, binary_name)
            /\ Return(FAILURE)
            /\ UNCHANGED <<mode, Locals>>
       ELSE /\ print_translations' = st.print_translations
            /\ print_returned_value' = st.print_returned_value
            /\ warnings' = st.warnings
            /\ lang_args' = st.lang_args
            /\ mode' = IF lang_file_execution THEN "file" ELSE "code"
            /\ pc' = IF lang_file_execution THEN "open" ELSE "current_dir"
            /\ UNCHANGED <<stdout, stderr, exit_code>>
    /\ UNCHANGED <<binary_name, args, Collaborators>>

\* lines 90-97
MainPrintTokens ==
    /\ pc = "main"
    /\ args # <<>>
    /\ ~IsExecutionOrHelp(At(args, 0))
    /\ At(args, 0) = "-printTokens"
    /\ IF WrongArity(args)
       THEN /\ stderr' = Append(stderr, "\"printTokens\" requires exactly one file argument")
            /\ stdout' = print_help(stdout, binary_name)
            /\ Return(FAILURE)
            /\ UNCHANGED mode
       ELSE /\ mode' = "printTokens"
            /\ pc' = "open"
            /\ UNCHANGED <<stdout, stderr, exit_code>>
    /\ UNCHANGED <<binary_name, args, Locals, Collaborators>>

\* lines 125-132
MainPrintAST ==
    /\ pc = "main"
    /\ args # <<>>
    /\ ~IsExecutionOrHelp(At(args, 0))
    /\ At(args, 0) = "-printAST"
    /\ IF WrongArity(args)
       THEN /\ stderr' = Append(stderr, "\"printAST\" requires exactly one file argument")
            /\ stdout' = print_help(stdout, binary_name)
            /\ Return(FAILURE)
            /\ UNCHANGED mode
       ELSE /\ mode' = "printAST"
            /\ pc' = "open"
            /\ UNCHANGED <<stdout, stderr, exit_code>>
    /\ UNCHANGED <<binary_name, args, Locals, Collaborators>>

\* lines 157-163
MainUnknownCommand ==
    /\ pc = "main"
    /\ args # <<>>
    /\ ~IsExecutionOrHelp(At(args, 0))
    /\ At(args, 0) # "-printTokens"
    /\ At(args, 0) # "-printAST"
    /\ stderr' = Append(stderr, "Unknown COMMAND \"" \o At(args, 0) \o "\"")
    /\ stdout' = print_help(stdout, binary_name)
    /\ Return(FAILURE)
    /\ UNCHANGED <<binary_name, args, mode, Locals, Collaborators>>

----------------------------------------------------------------------------
(* Source acquisition: File::open and read_to_end, written three times in the *)
(* source (lines 99-115, 134-150, 221-237) with the same shape.               *)

IoErrors == {"No such file or directory (os error 2)"}

Call(fn, arg, result) == [fn |-> fn, arg |-> arg, result |-> result]

\* &args[1] for -printTokens and -printAST, lang_file = &args[0] for a file run
FilePath == IF mode = "file" THEN At(args, 0) ELSE At(args, 1)

\* Mutant: a file that cannot be opened ends the run with SUCCESS.
OpenFile_FailureExitsSuccess ==
    /\ pc = "open"
    /\ \/ /\ calls' = Append(calls, Call("File::open", FilePath, "Ok"))
          /\ pc' = "read"
          /\ UNCHANGED <<stderr, exit_code>>
       \/ \E e \in IoErrors :
          /\ calls' = Append(calls, Call("File::open", FilePath, "Err"))
          /\ stderr' = Append(stderr, "FILE can not be read " \o e)
          /\ Return(SUCCESS)
    /\ UNCHANGED <<binary_name, args, mode, Locals, stdout, code, interpreter,
                   interpreter_result>>

OpenFile ==
    /\ pc = "open"
    /\ \/ /\ calls' = Append(calls, Call("File::open", FilePath, "Ok"))
          /\ pc' = "read"
          /\ UNCHANGED <<stderr, exit_code>>
       \/ \E e \in IoErrors :
          /\ calls' = Append(calls, Call("File::open", FilePath, "Err"))
          /\ stderr' = Append(stderr, "FILE can not be read " \o e)
          /\ Return(FAILURE)
    /\ UNCHANGED <<binary_name, args, mode, Locals, stdout, code, interpreter,
                   interpreter_result>>

\* Mutant: a file that cannot be read is answered with the help page too.
ReadToEnd_FailurePrintsHelp ==
    /\ pc = "read"
    /\ \/ \E bytes \in FileContents :
          /\ calls' = Append(calls, Call("read_to_end", FilePath, "Ok"))
          /\ code' = Some(bytes)
          /\ pc' = CASE mode = "printTokens" -> "read_tokens"
                     [] mode = "printAST" -> "parse_lines"
                     [] OTHER -> "lang_path"
          /\ UNCHANGED <<stdout, stderr, exit_code>>
       \/ \E e \in IoErrors :
          /\ calls' = Append(calls, Call("read_to_end", FilePath, "Err"))
          /\ stderr' = Append(stderr, "FILE can not be read " \o e)
          /\ stdout' = print_help(stdout, binary_name)
          /\ Return(FAILURE)
          /\ UNCHANGED code
    /\ UNCHANGED <<binary_name, args, mode, Locals, interpreter, interpreter_result>>

ReadToEnd ==
    /\ pc = "read"
    /\ \/ \E bytes \in FileContents :
          /\ calls' = Append(calls, Call("read_to_end", FilePath, "Ok"))
          /\ code' = Some(bytes)
          /\ pc' = CASE mode = "printTokens" -> "read_tokens"
                     [] mode = "printAST" -> "parse_lines"
                     [] OTHER -> "lang_path"
          /\ UNCHANGED <<stderr, exit_code>>
       \/ \E e \in IoErrors :
          /\ calls' = Append(calls, Call("read_to_end", FilePath, "Err"))
          /\ stderr' = Append(stderr, "FILE can not be read " \o e)
          /\ Return(FAILURE)
          /\ UNCHANGED code
    /\ UNCHANGED <<binary_name, args, mode, Locals, stdout, interpreter,
                   interpreter_result>>

\* The text handed to a collaborator, as the string a call is recorded with.
SourceText == ToString(FromUtf8Lossy(Unwrap(code)))

----------------------------------------------------------------------------
(* Diagnostic dispatch *)

\* lines 117-122: the lexer's tokens are printed, whatever they are
ReadTokens ==
    /\ pc = "read_tokens"
    /\ calls' = Append(calls, Call("Lexer::read_tokens", SourceText, "Ok"))
    /\ stdout' = Append(stdout, "tokens of " \o SourceText)
    /\ Return(SUCCESS)
    /\ UNCHANGED <<binary_name, args, mode, Locals, stderr, code, interpreter,
                   interpreter_result>>

\* lines 152-154: parse_lines returns an Option, which is unwrapped
ParseLines ==
    /\ pc = "parse_lines"
    /\ \/ /\ calls' = Append(calls, Call("Parser::parse_lines", SourceText, "Some"))
          /\ stdout' = Append(stdout, "AST of " \o SourceText)
          /\ Return(SUCCESS)
          /\ UNCHANGED stderr
       \/ /\ calls' = Append(calls, Call("Parser::parse_lines", SourceText, "None"))
          /\ stderr' = Append(stderr, "thread 'main' panicked")
          /\ pc' = "abort"
          /\ UNCHANGED <<stdout, exit_code>>
    /\ UNCHANGED <<binary_name, args, mode, Locals, code, interpreter,
                   interpreter_result>>

----------------------------------------------------------------------------
(* Interpreter dispatch *)

\* lines 199-207: the working directory, then Interpreter::new
CurrentDir ==
    /\ pc = "current_dir"
    /\ \/ /\ calls' = calls \o << Call("env::current_dir", "", "Ok"),
                                  Call("Interpreter::new", "", "Ok") >>
          /\ interpreter' = Some([lang_path |-> "cwd", lang_file |-> Some(""),
                                  lang_args |-> lang_args])
          /\ pc' = "interpret_lines"
          /\ UNCHANGED stderr
       \/ /\ calls' = Append(calls, Call("env::current_dir", "", "Err"))
          /\ stderr' = Append(stderr, "thread 'main' panicked")
          /\ pc' = "abort"
          /\ UNCHANGED interpreter
    /\ UNCHANGED <<binary_name, args, mode, Locals, stdout, exit_code, code,
                   interpreter_result>>

\* lines 239-251: the platform API names the script, then Interpreter::new
LangPath ==
    /\ pc = "lang_path"
    /\ \/ /\ calls' = calls \o << Call("get_lang_path", At(args, 0), "Ok"),
                                  Call("get_lang_file_name", At(args, 0), "Ok"),
                                  Call("Interpreter::new", "", "Ok") >>
          /\ interpreter' = Some([lang_path |-> "path of " \o At(args, 0),
                                  lang_file |-> Some("name of " \o At(args, 0)),
                                  lang_args |-> lang_args])
          /\ pc' = "interpret_lines"
          /\ UNCHANGED stderr
       \/ /\ calls' = Append(calls, Call("get_lang_path", At(args, 0), "Err"))
          /\ stderr' = Append(stderr, "thread 'main' panicked")
          /\ pc' = "abort"
          /\ UNCHANGED interpreter
       \/ /\ calls' = calls \o << Call("get_lang_path", At(args, 0), "Ok"),
                                  Call("get_lang_file_name", At(args, 0), "Err") >>
          /\ stderr' = Append(stderr, "thread 'main' panicked")
          /\ pc' = "abort"
          /\ UNCHANGED interpreter
    /\ UNCHANGED <<binary_name, args, mode, Locals, stdout, exit_code, code,
                   interpreter_result>>

\* What the interpreter reports on its own channels.
InterpreterOutcomes == {"finished", "reported an error"}

\* lines 209-217 and 253-261: the body of `if warnings` is a comment, the
\* post-execution output is a comment; interpret_lines is the only call.
InterpretLines ==
    /\ pc = "interpret_lines"
    /\ \E outcome \in InterpreterOutcomes :
          /\ calls' = Append(calls, Call("Interpreter::interpret_lines",
                                         IF mode = "code" THEN At(args, 1) ELSE SourceText,
                                         outcome))
          /\ interpreter_result' = Some(outcome)
    /\ Return(SUCCESS)
    /\ UNCHANGED <<binary_name, args, mode, Locals, stdout, stderr, code, interpreter>>

----------------------------------------------------------------------------

Next ==
    \/ MainNoArgs
    \/ MainHelp
    \/ MainLongOption
    \/ MainMissingCode
    \/ MainExecutionArgs
    \/ MainPrintTokens
    \/ MainPrintAST
    \/ MainUnknownCommand
    \/ OpenFile
    \/ ReadToEnd
    \/ ReadTokens
    \/ ParseLines
    \/ CurrentDir
    \/ LangPath
    \/ InterpretLines

Spec == Init /\ [][Next]_vars

----------------------------------------------------------------------------
(* Vocabulary of the command-line contract, stated on the argument vector   *)
(* alone (1-based positions), independently of the operators above.         *)

BooleanFlags == {"-printTranslations", "-printReturnedValue", "-warnings"}
Delimiters == {"-langArgs", "--"}

Min(S) == CHOOSE x \in S : \A y \in S : x <= y

ExecuteFileMode(as) == as # <<>> /\ ~StartsWith(as[1], "-")
ExecuteCodeMode(as) == Len(as) >= 2 /\ as[1] = "-e"
ExecuteMode(as) == ExecuteFileMode(as) \/ ExecuteCodeMode(as)
HelpMode(as) == as # <<>> /\ (StartsWith(as[1], "-h") \/ as[1] = "--help")
PrintMode(as) == as # <<>> /\ as[1] \in {"-printTokens", "-printAST"}

\* EXEC_FLAGS region: the tail after the source positional.
RegionStart(as) == IF as[1] = "-e" THEN 3 ELSE 2
DelimiterPositions(as) == {k \in RegionStart(as)..Len(as) : as[k] \in Delimiters}
FlagRegion(as) ==
    IF DelimiterPositions(as) = {} THEN RegionStart(as)..Len(as)
    ELSE RegionStart(as)..(Min(DelimiterPositions(as)) - 1)
UnknownPositions(as) == {k \in FlagRegion(as) : as[k] \notin BooleanFlags}
RemovablePositions(as) == {k \in FlagRegion(as) : as[k] \in BooleanFlags}

\* The suffix strictly after the first delimiter, or absent.
ExpectedLangArgs(as) ==
    IF DelimiterPositions(as) = {} THEN None
    ELSE Some(SubSeq(as, Min(DelimiterPositions(as)) + 1, Len(as)))

\* as without the entries at the positions in S
RemovePositions(as, S) ==
    LET F[k \in 0..Len(as)] ==
            IF k = 0 THEN <<>>
            ELSE IF k \in S THEN F[k - 1] ELSE Append(F[k - 1], as[k])
    IN F[Len(as)]

\* The argument errors.
UnknownCommand(as) ==
    /\ as # <<>>
    /\ StartsWith(as[1], "-")
    /\ as[1] \notin {"-e", "-printTokens", "-printAST", "--help"}
    /\ ~StartsWith(as[1], "-h")
MissingCode(as) == as = <<"-e">>
UnknownExecutionArg(as) == ExecuteMode(as) /\ UnknownPositions(as) # {}
WrongArityError(as) == PrintMode(as) /\ Len(as) # 2
ArgumentError(as) ==
    UnknownCommand(as) \/ MissingCode(as) \/ UnknownExecutionArg(as) \/ WrongArityError(as)
ExplicitHelp(as) == as = <<>> \/ HelpMode(as)

\* Observations of a run.
Started == pc # "main"
Ended == pc \in {"exit", "abort"}
HelpPrinted ==
    LET page == HelpPage(binary_name) IN
    \E k \in 0..(Len(stdout) - Len(page)) : SubSeq(stdout, k + 1, k + Len(page)) = page
Called(fns) == \E k \in 1..Len(calls) : calls[k].fn \in fns
FileFailure ==
    \E k \in 1..Len(calls) :
        calls[k].fn \in {"File::open", "read_to_end"} /\ calls[k].result = "Err"
OnlyFileErrorOnStderr ==
    Len(stderr) = 1 /\ StartsWith(stderr[1], "FILE can not be read ")
Collaborated ==
    Called({"Lexer::read_tokens", "Parser::parse_lines", "Interpreter::new",
            "Interpreter::interpret_lines"})

----------------------------------------------------------------------------
(* Claims *)

\* C1: in ExecuteFile and ExecuteCode mode, when the EXEC_FLAGS region holds
\* only recognized boolean flags up to its first delimiter (if any), the run is
\* accepted and the langArgs handed to the interpreter are exactly the
\* arguments strictly after the first delimiter, verbatim and in order
\* (present but empty when the delimiter is last); nothing after the
\* delimiter is read as a flag, a delimiter or an unknown argument; langArgs
\* are absent exactly when there is no delimiter.
C1_LangArgsAreSuffixAfterDelimiter ==
    (Started /\ ExecuteMode(args) /\ UnknownPositions(args) = {}) =>
        /\ mode \in {"file", "code"}
        /\ lang_args = ExpectedLangArgs(args)
        /\ IsSome(lang_args) <=> DelimiterPositions(args) # {}
        /\ \A k \in 1..Len(stderr) : ~StartsWith(stderr[k], "Unknown EXECUTION_ARG")
        /\ IsSome(interpreter) => Unwrap(interpreter).lang_args = ExpectedLangArgs(args)
        /\ warnings <=> \E k \in FlagRegion(args) : args[k] = "-warnings"

C1_Witness ==
    /\ pc = "exit"
    /\ IsSome(interpreter_result)
    /\ IsSome(lang_args)
    /\ \E j, k \in 1..Len(Unwrap(lang_args)) :
          /\ Unwrap(lang_args)[j] \in Delimiters
          /\ Unwrap(lang_args)[k] = "a"
    /\ Unwrap(interpreter).lang_args = lang_args

\* C2: in ExecuteFile and ExecuteCode mode, an unrecognized token before the
\* first delimiter makes the run write 'Unknown EXECUTION_ARG "<token>"' for
\* the first such token to stderr, print the help page and exit 1, without
\* opening the file or invoking the interpreter.
C2_UnknownExecutionArgRejected ==
    (Started /\ ExecuteMode(args) /\ UnknownPositions(args) # {}) =>
        /\ pc = "exit"
        /\ exit_code = Some(1)
        /\ stderr = << "Unknown EXECUTION_ARG \"" \o args[Min(UnknownPositions(args))] \o "\"" >>
        /\ HelpPrinted
        /\ calls = <<>>
        /\ interpreter = None

C2_Witness ==
    /\ pc = "exit"
    /\ ExecuteCodeMode(args)
    /\ Cardinality(UnknownPositions(args)) >= 2
    /\ args[RegionStart(args)] \in BooleanFlags
    /\ exit_code = Some(1)

\* What a rejected command leaves behind.
UnknownCommandReported ==
    /\ pc = "exit"
    /\ exit_code = Some(1)
    /\ stderr = << "Unknown COMMAND \"" \o args[1] \o "\"" >>
    /\ HelpPrinted
    /\ calls = <<>>

\* C3 as claimed: a first argument that begins with "--" and is not "--help",
\* or that begins with "-", is none of "-e", "-printTokens", "-printAST" and
\* does not begin with "-h", makes the run write 'Unknown COMMAND "<argv[0]>"'
\* to stderr, print the help page and exit 1, whatever follows.
C3_UnknownCommandAsClaimed ==
    (/\ Started
     /\ args # <<>>
     /\ \/ StartsWith(args[1], "--") /\ args[1] # "--help"
        \/ /\ StartsWith(args[1], "-")
           /\ args[1] \notin {"-e", "-printTokens", "-printAST"}
           /\ ~StartsWith(args[1], "-h")) =>
        UnknownCommandReported

\* C3 amended: a first argument that begins with "--" and is not "--help", or
\* that begins with "-", is none of "-e", "-printTokens", "-printAST",
\* "--help" and does not begin with "-h", makes the run write
\* 'Unknown COMMAND "<argv[0]>"' to stderr, print the help page and exit 1,
\* whatever follows.
C3_UnknownCommandRejected ==
    (/\ Started
     /\ args # <<>>
     /\ \/ StartsWith(args[1], "--") /\ args[1] # "--help"
        \/ /\ StartsWith(args[1], "-")
           /\ args[1] \notin {"-e", "-printTokens", "-printAST", "--help"}
           /\ ~StartsWith(args[1], "-h")) =>
        UnknownCommandReported

C3_Witness ==
    /\ pc = "exit"
    /\ Len(args) >= 3
    /\ args[1] = "--"
    /\ stderr = << "Unknown COMMAND \"--\"" >>
    /\ exit_code = Some(1)

\* C4: a first argument that starts with "-h" makes the run print the help
\* page to stdout, write nothing to stderr, read no file, invoke no lexer,
\* parser or interpreter, and exit 0, whatever follows.
C4_HelpPrefixIsLenient ==
    (Started /\ args # <<>> /\ StartsWith(args[1], "-h")) =>
        /\ pc = "exit"
        /\ exit_code = Some(0)
        /\ stdout = HelpPage(binary_name)
        /\ stderr = <<>>
        /\ calls = <<>>
        /\ interpreter = None

C4_Witness ==
    /\ pc = "exit"
    /\ Len(args) >= 2
    /\ args[1] = "-help"
    /\ args[2] = "-warnings"
    /\ exit_code = Some(0)

\* C5: a run that returns from main exits 1 exactly when an argument error
\* (UnknownCommand, MissingCode, UnknownExecutionArg, WrongArity) or a failure
\* to open or read the file occurred, and exits 0 otherwise, also when the
\* interpreter reported an error of its own.
C5_ExitCodeDiscipline ==
    /\ pc = "exit" =>
          exit_code = Some(IF ArgumentError(args) \/ FileFailure THEN 1 ELSE 0)
    /\ pc # "exit" => exit_code = None

C5_Witness ==
    /\ pc = "exit"
    /\ interpreter_result = Some("reported an error")
    /\ exit_code = Some(0)

\* C6: the help page is printed in exactly the runs that ask for it (no
\* arguments, "-h...", "--help") or that end in an argument error; a run
\* that cannot open or read its file writes 'FILE can not be read <detail>'
\* to stderr and prints no help; a run that dumps or interprets prints no help.
C6_HelpOnlyOnRequestOrUsageError ==
    /\ HelpPrinted => ExplicitHelp(args) \/ ArgumentError(args)
    /\ (Ended /\ (ExplicitHelp(args) \/ ArgumentError(args))) => HelpPrinted
    /\ FileFailure =>
          /\ mode \in {"file", "printTokens", "printAST"}
          /\ OnlyFileErrorOnStderr
          /\ ~HelpPrinted
    /\ Collaborated => ~HelpPrinted

C6_Witness ==
    /\ pc = "exit"
    /\ mode = "printAST"
    /\ FileFailure
    /\ Called({"read_to_end"})
    /\ stdout = <<>>

\* C7: for "-printTokens" and "-printAST" the file argv[1] is opened, and the
\* lexer or parser invoked, only when argv has exactly two entries; any other
\* length gives the '"printTokens" (or "printAST") requires exactly one file
\* argument' error, the help page and exit 1, with no file opened.
C7_PrintModesNeedExactlyOneFile ==
    (Started /\ PrintMode(args)) =>
        /\ Len(args) = 2 =>
              /\ mode = (IF args[1] = "-printTokens" THEN "printTokens" ELSE "printAST")
              /\ \A k \in 1..Len(calls) :
                    calls[k].fn \in {"File::open", "read_to_end"} => calls[k].arg = args[2]
              /\ ~HelpPrinted
        /\ Len(args) # 2 =>
              /\ pc = "exit"
              /\ exit_code = Some(1)
              /\ stderr = << (IF args[1] = "-printTokens" THEN "\"printTokens\"" ELSE "\"printAST\"")
                             \o " requires exactly one file argument" >>
              /\ HelpPrinted
              /\ calls = <<>>

C7_Witness ==
    /\ pc = "exit"
    /\ Len(args) = 3
    /\ args[1] = "-printAST"
    /\ args[2] = "a"
    /\ exit_code = Some(1)
    /\ calls = <<>>

\* C8: for an argv accepted in ExecuteFile or ExecuteCode mode, removing any
\* of the recognized boolean flags that stand before the first delimiter
\* gives an argv that is accepted in the same mode, with the same source and
\* the same langArgs (presence, entries, order).
C8_RemovingBooleanFlagsKeepsLangArgs ==
    (Started /\ mode \in {"file", "code"}) =>
        \A S \in SUBSET RemovablePositions(args) :
            LET reduced == RemovePositions(args, S)
                st == ParseExecutionArgs(reduced) IN
            /\ ReachesExecutionArgs(reduced)
            /\ st.unknown = None
            /\ (At(reduced, 0) # "-e") <=> (mode = "file")
            /\ IF mode = "file" THEN At(reduced, 0) = At(args, 0)
                                ELSE At(reduced, 1) = At(args, 1)
            /\ st.lang_args = lang_args

C8_Witness ==
    /\ pc = "exit"
    /\ mode = "file"
    /\ Cardinality(RemovablePositions(args)) >= 2
    /\ IsSome(lang_args)
    /\ Unwrap(lang_args) # <<>>
    /\ IsSome(interpreter_result)

\* Execution options are set in no mode but ExecuteFile and ExecuteCode.
OptionsOnlyInExecuteModes ==
    mode \notin {"file", "code"} =>
        /\ ~print_translations
        /\ ~print_returned_value
        /\ ~warnings
        /\ lang_args = None

\* Every argument after the mode's required ones is an execution-flag token.
CarriesTrailingFlags(as, required) ==
    /\ Len(as) > 1 + required
    /\ \A k \in (2 + required)..Len(as) : as[k] \in BooleanFlags \cup Delimiters

\* C9 as claimed: execution options are populated only in ExecuteFile and
\* ExecuteCode mode, and Help, PrintTokens and PrintAST reject trailing
\* execution flags with an argument error and exit 1.
C9_OtherModesRejectTrailingFlags ==
    /\ OptionsOnlyInExecuteModes
    /\ (Started /\ HelpMode(args) /\ CarriesTrailingFlags(args, 0)) =>
          (pc = "exit" /\ exit_code = Some(1))
    /\ (Started /\ PrintMode(args) /\ CarriesTrailingFlags(args, 1)) =>
          (pc = "exit" /\ exit_code = Some(1))

\* C9 amended: execution options are populated only in ExecuteFile and
\* ExecuteCode mode; PrintTokens and PrintAST reject trailing execution flags
\* (arity error, help page, exit 1, no file opened), while Help ignores
\* whatever follows: it prints the help page and exits 0.
C9_PrintModesRejectHelpIgnoresTrailingFlags ==
    /\ OptionsOnlyInExecuteModes
    /\ (Started /\ PrintMode(args) /\ CarriesTrailingFlags(args, 1)) =>
          /\ pc = "exit"
          /\ exit_code = Some(1)
          /\ Len(stderr) = 1
          /\ HelpPrinted
          /\ calls = <<>>
    /\ (Started /\ HelpMode(args) /\ CarriesTrailingFlags(args, 0)) =>
          /\ pc = "exit"
          /\ exit_code = Some(0)
          /\ stdout = HelpPage(binary_name)
          /\ stderr = <<>>

C9_Witness ==
    /\ pc = "exit"
    /\ CarriesTrailingFlags(args, 0)
    /\ args[1] = "--help"
    /\ args[2] = "-warnings"
    /\ exit_code = Some(0)

\* A call of fn is recorded before (after) the call of interpret_lines.
CalledBeforeInterpretation(fn) ==
    \E j, k \in 1..Len(calls) :
        j < k /\ calls[j].fn = fn /\ calls[k].fn = "Interpreter::interpret_lines"
CalledAfterInterpretation(fn) ==
    \E j, k \in 1..Len(calls) :
        j < k /\ calls[j].fn = "Interpreter::interpret_lines" /\ calls[k].fn = fn

\* C10: around the single interpretation, the interpreter is set to its
\* broadest error output before it starts exactly when warnings is set, and
\* after it returns the translations are emitted exactly when
\* printTranslations is set and the returned or thrown value exactly when
\* printReturnedValue is set.
C10_FlagsTakeEffectAroundInterpretation ==
    (pc = "exit" /\ IsSome(interpreter_result)) =>
        /\ warnings <=> CalledBeforeInterpretation("Interpreter::setErrorOutputFlag")
        /\ print_translations <=> CalledAfterInterpretation("printTranslations")
        /\ print_returned_value <=> CalledAfterInterpretation("printReturnedValue")

====
